---- MODULE Spec2Model ----
(***************************************************************************)
(* Sticker-pack lifecycle of the VoiceSticker bot: the Pack Name           *)
(* Generator, the Pack Registry (tables user_sticker_packs and             *)
(* sticker_pack_items) and the Pack Lifecycle Manager                      *)
(* (get_or_create_user_pack) together with the two handlers that call it.  *)
(*                                                                         *)
(* Strings are sequences of characters; a character is a one-letter        *)
(* string, and a Cyrillic letter (which the module's text cannot hold) is  *)
(* the string "<x>" naming it.  None and the empty string are both <<>>    *)
(* (the code only tests them for truthiness).                              *)
(***************************************************************************)
EXTENDS Naturals, Sequences, FiniteSets, TLC

(* ------------------------------------------------------------------ *)
(* Bounds of the model                                                 *)
(* ------------------------------------------------------------------ *)

\* rows ever inserted into user_sticker_packs (AUTOINCREMENT ids 1..MaxPackId)
MaxPackId == 3
\* rows ever inserted into stickers (AUTOINCREMENT ids 1..MaxStickers)
MaxStickers == 3
\* a handler starts while another is running only as long as fewer than
\* MaxOverlapPackId rows were ever inserted into user_sticker_packs and
\* fewer than MaxOverlapStickers stickers exist
MaxOverlapPackId == 1
MaxOverlapStickers == 2
\* /start arrives while at most MaxStartStickers stickers exist
MaxStartStickers == 1
\* config.MAX_PACKS_PER_USER = int(os.getenv("MAX_PACKS_PER_USER", "10")), a
\* deployment parameter: scaled down to the smallest ceiling that lets a
\* user own more than one pack.
MAX_PACKS_PER_USER == 2

(* ------------------------------------------------------------------ *)
(* Program constants                                                   *)
(* ------------------------------------------------------------------ *)


\* _translit_name: result[:32]
TRANSLIT_MAX == 32

\* config.BOT_USERNAME default "Voice_Stiker_Bot"
BOT_USERNAME ==
    <<"V","o","i","c","e","_","S","t","i","k","e","r","_","B","o","t">>

\* Telegram user ids of the users of the model
UserIds == {7, 42}

\* from_user.first_name values a user may carry: Cyrillic letters, digits
\* only, punctuation only, and none at all ("User", Latin letters).
FirstNames ==
    { <<"<YA>","<soft>">>, <<"2">>, <<"!">>, <<>> }

(* ------------------------------------------------------------------ *)
(* State                                                               *)
(* ------------------------------------------------------------------ *)

VARIABLES
    packs,                \* table user_sticker_packs
    pack_seq,             \* its AUTOINCREMENT counter (sqlite_sequence)
    items,                \* table sticker_pack_items: (id, pack_id, sticker_id)
    stickers,             \* table stickers: (id, user_id)
    processing_stickers,  \* bot_handlers.processing_stickers
    task,                 \* per task: position and local variables
    users,                \* table users: the user ids that have a row
    user_stats,           \* table user_stats: user id -> total_stickers
    fsm,                  \* FSM storage: user id -> state and data
    handled,              \* the last message update and the handler it got
    prepared              \* a sticker file handed to prepare_sticker_file

(* ------------------------------------------------------------------ *)
(* Strings                                                             *)
(* ------------------------------------------------------------------ *)

Digits == <<"0","1","2","3","4","5","6","7","8","9">>

DigitChars == { Digits[i] : i \in 1..10 }

DigitVal(c) == (CHOOSE i \in 1..10 : Digits[i] = c) - 1

RECURSIVE IntToStr(_)
\* str(n) / f"{n}" for n >= 0
IntToStr(n) ==
    IF n < 10 THEN << Digits[n + 1] >>
    ELSE IntToStr(n \div 10) \o << Digits[(n % 10) + 1] >>

RECURSIVE StrToNat(_)
\* the value of a non-empty string of decimal digits
StrToNat(s) ==
    IF Len(s) = 0 THEN 0
    ELSE 10 * StrToNat(SubSeq(s, 1, Len(s) - 1)) + DigitVal(s[Len(s)])

RECURSIVE Concat(_)
\* ''.join(parts)
Concat(parts) ==
    IF Len(parts) = 0 THEN <<>> ELSE Head(parts) \o Concat(Tail(parts))

\* sub in s
Contains(s, sub) ==
    \E i \in 1..(Len(s) + 1) :
        /\ i + Len(sub) - 1 <= Len(s)
        /\ SubSeq(s, i, i + Len(sub) - 1) = sub

\* s.startswith(sub)
StartsWith(s, sub) ==
    Len(sub) <= Len(s) /\ SubSeq(s, 1, Len(sub)) = sub

RECURSIVE Replace(_, _)
\* s.replace(old, ""), old non-empty: every non-overlapping occurrence, left
\* to right, is removed
Replace(s, old) ==
    IF Len(s) = 0 THEN <<>>
    ELSE IF StartsWith(s, old)
         THEN Replace(SubSeq(s, Len(old) + 1, Len(s)), old)
         ELSE << Head(s) >> \o Replace(Tail(s), old)

\* s.split(sep)[0]: the part before the first separator, all of s without one
SplitFirst(s, sep) ==
    IF \E i \in 1..Len(s) : s[i] = sep
    THEN SubSeq(s, 1, (CHOOSE i \in 1..Len(s) :
                          s[i] = sep /\ \A j \in 1..(i - 1) : s[j] # sep) - 1)
    ELSE s

\* str.lower() on one character
Lower(c) ==
    CASE c = "U" -> "u"
      [] c = "<YA>" -> "<ya>"
      [] OTHER -> c

LatinLetters ==
    { "a","b","c","d","e","f","g","h","i","j","k","l","m","n","o","p","q",
      "r","s","t","u","v","w","x","y","z",
      "A","B","C","D","E","F","G","H","I","J","K","L","M","N","O","P","Q",
      "R","S","T","U","V","W","X","Y","Z" }

(* ------------------------------------------------------------------ *)
(* Pack Name Generator (telegram_sticker_manager.py)                   *)
(* ------------------------------------------------------------------ *)

\* self.translit_dict, keyed by the lower-case Cyrillic letters
translit_dict ==
    [ c \in { "<a>","<b>","<v>","<g>","<d>","<e>","<yo>","<zh>","<z>","<i>",
              "<j>","<k>","<l>","<m>","<n>","<o>","<p>","<r>","<s>","<t>",
              "<u>","<f>","<h>","<ts>","<ch>","<sh>","<sch>","<hard>",
              "<yery>","<soft>","<eh>","<yu>","<ya>" } |->
        CASE c = "<a>" -> <<"a">>        [] c = "<b>" -> <<"b">>
          [] c = "<v>" -> <<"v">>        [] c = "<g>" -> <<"g">>
          [] c = "<d>" -> <<"d">>        [] c = "<e>" -> <<"e">>
          [] c = "<yo>" -> <<"e">>       [] c = "<zh>" -> <<"z","h">>
          [] c = "<z>" -> <<"z">>        [] c = "<i>" -> <<"i">>
          [] c = "<j>" -> <<"y">>        [] c = "<k>" -> <<"k">>
          [] c = "<l>" -> <<"l">>        [] c = "<m>" -> <<"m">>
          [] c = "<n>" -> <<"n">>        [] c = "<o>" -> <<"o">>
          [] c = "<p>" -> <<"p">>        [] c = "<r>" -> <<"r">>
          [] c = "<s>" -> <<"s">>        [] c = "<t>" -> <<"t">>
          [] c = "<u>" -> <<"u">>        [] c = "<f>" -> <<"f">>
          [] c = "<h>" -> <<"h">>        [] c = "<ts>" -> <<"t","s">>
          [] c = "<ch>" -> <<"c","h">>   [] c = "<sh>" -> <<"s","h">>
          [] c = "<sch>" -> <<"s","c","h">>
          [] c = "<hard>" -> <<>>        [] c = "<yery>" -> <<"y">>
          [] c = "<soft>" -> <<>>        [] c = "<eh>" -> <<"e">>
          [] c = "<yu>" -> <<"y","u">>   [] c = "<ya>" -> <<"y","a">> ]

\* c.isalnum() (a Cyrillic letter the dictionary lacks would be alphanumeric
\* too; every lower-case one is in the dictionary)
IsAlnum(c) == c \in LatinLetters \cup DigitChars

\* self.translit_dict.get(char, char)
TranslitChar(c) ==
    IF c \in DOMAIN translit_dict THEN translit_dict[c] ELSE << c >>

\* _translit_name: lower, transliterate, keep [A-Za-z0-9_], cut to 32
translit_name(name) ==
    LET mapped == Concat([ i \in 1..Len(name) |-> TranslitChar(Lower(name[i])) ])
        kept   == SelectSeq(mapped, LAMBDA c : IsAlnum(c) \/ c = "_")
    IN  SubSeq(kept, 1, IF Len(kept) < TRANSLIT_MAX THEN Len(kept) ELSE TRANSLIT_MAX)

\* a generator that numbers the set by the table's row counter
get_pack_name_by_counter(user_id, pack_number, user_name) ==
    <<"p","a","c","k">> \o IntToStr(pack_seq + 1) \o <<"_">>
        \o IntToStr(user_id) \o <<"_","b","y","_">> \o BOT_USERNAME

\* _get_pack_name(user_id, pack_number, user_name); user_name <<>> is None
\* or the empty string
get_pack_name(user_id, pack_number, user_name) ==
    IF user_name # <<>> /\ pack_number = 1
    THEN translit_name(user_name)
            \o <<"_","s","t","i","c","k","e","r","s","_","b","y","_">>
            \o BOT_USERNAME
    ELSE <<"p","a","c","k">> \o IntToStr(pack_number) \o <<"_">>
            \o IntToStr(user_id) \o <<"_","b","y","_">> \o BOT_USERNAME

\* the handlers' "from_user.first_name or 'User'"
first_name_or_User(first_name) ==
    IF first_name # <<>> THEN first_name ELSE <<"U","s","e","r">>

(* ------------------------------------------------------------------ *)
(* Pack Registry (db_manager/manager.py)                               *)
(* ------------------------------------------------------------------ *)

\* save_user_pack, lines 552-557: the pack number read back from the name
parse_pack_number(pack_name) ==
    IF Contains(pack_name, <<"_">>)
    THEN LET s == Replace(SplitFirst(pack_name, "_"), <<"p","a","c","k">>)
         IN  IF Len(s) > 0 /\ \A i \in 1..Len(s) : s[i] \in DigitChars
             THEN StrToNat(s)
             ELSE 1
    ELSE 1

\* one user_sticker_packs row: id INTEGER PRIMARY KEY AUTOINCREMENT,
\* pack_name UNIQUE (over all users); the timestamps are left out
PackRow(id, user_id, pack_name, pack_number) ==
    [ id |-> id, user_id |-> user_id, pack_name |-> pack_name,
      pack_number |-> pack_number ]

\* save_user_pack's INSERT OR REPLACE: a row with the same pack_name, whoever
\* owns it, is deleted and a new row inserted under the next AUTOINCREMENT id
\* (seq + 1, which is also the lastrowid returned).  Connections opened by
\* these methods do not set PRAGMA foreign_keys, so the deleted row's
\* sticker_pack_items stay behind.
save_user_pack(rows, seq, user_id, pack_name) ==
    { r \in rows : r.pack_name # pack_name }
        \cup { PackRow(seq + 1, user_id, pack_name, parse_pack_number(pack_name)) }

\* one sticker_pack_items row: id INTEGER PRIMARY KEY AUTOINCREMENT,
\* UNIQUE(pack_id, sticker_id); added_at is left out.  No statement of the
\* program deletes from this table, so the next id is the row count + 1.
ItemRow(id, pack_id, sticker_id) ==
    [ id |-> id, pack_id |-> pack_id, sticker_id |-> sticker_id ]

\* the association inserted without INSERT OR IGNORE into a table without
\* UNIQUE(pack_id, sticker_id)
db_add_sticker_to_pack_always_inserts(rows, seq, its, user_id, pack_name, sticker_id) ==
    LET found   == { r \in rows : r.pack_name = pack_name /\ r.user_id = user_id }
        pack_id == IF found = {} THEN seq + 1 ELSE (CHOOSE r \in found : TRUE).id
    IN  [ packs    |-> IF found = {} THEN save_user_pack(rows, seq, user_id, pack_name)
                                     ELSE rows,
          pack_seq |-> IF found = {} THEN seq + 1 ELSE seq,
          items    |-> its \cup { ItemRow(Cardinality(its) + 1, pack_id, sticker_id) } ]

\* DatabaseManager.add_sticker_to_pack: the pack id is looked up by
\* (pack_name, user_id); a missing pack row is created with save_user_pack;
\* then INSERT OR IGNORE INTO sticker_pack_items.  The result is the
\* Registry after the call.
db_add_sticker_to_pack(rows, seq, its, user_id, pack_name, sticker_id) ==
    LET found   == { r \in rows : r.pack_name = pack_name /\ r.user_id = user_id }
        pack_id == IF found = {} THEN seq + 1 ELSE (CHOOSE r \in found : TRUE).id
    IN  [ packs    |-> IF found = {} THEN save_user_pack(rows, seq, user_id, pack_name)
                                     ELSE rows,
          pack_seq |-> IF found = {} THEN seq + 1 ELSE seq,
          items    |-> IF \E it \in its :
                             it.pack_id = pack_id /\ it.sticker_id = sticker_id
                       THEN its
                       ELSE its \cup { ItemRow(Cardinality(its) + 1, pack_id,
                                               sticker_id) } ]

\* DELETE FROM user_sticker_packs WHERE user_id = ? AND pack_name = ?
delete_user_pack(rows, user_id, pack_name) ==
    { r \in rows : ~(r.user_id = user_id /\ r.pack_name = pack_name) }

\* one dict of get_user_packs: p.id, p.pack_name, p.pack_number and
\* COUNT(spi.id) over the LEFT JOIN
PackDict(r, its) ==
    [ id |-> r.id, pack_name |-> r.pack_name, pack_number |-> r.pack_number,
      stickers_count |-> Cardinality({ it \in its : it.pack_id = r.id }) ]

\* ORDER BY p.pack_number
OrderedByPackNumber(list) ==
    \A i, j \in 1..Len(list) :
        i < j => list[i].pack_number <= list[j].pack_number

\* get_user_packs without its ORDER BY: the rows in any order
get_user_packs_unordered(rows, its, user_id) ==
    LET mine == { PackDict(r, its) : r \in { x \in rows : x.user_id = user_id } }
        n    == Cardinality(mine)
    IN  { list \in [ 1..n -> mine ] :
            \A i, j \in 1..n : i # j => list[i] # list[j] }

\* get_user_packs(user_id): the lists the query may return, i.e. the user's
\* rows in ascending pack_number, rows of equal pack_number in either order
get_user_packs(rows, its, user_id) ==
    LET mine == { PackDict(r, its) : r \in { x \in rows : x.user_id = user_id } }
        n    == Cardinality(mine)
    IN  { list \in [ 1..n -> mine ] :
            /\ \A i, j \in 1..n : i # j => list[i] # list[j]
            /\ OrderedByPackNumber(list) }

(* ------------------------------------------------------------------ *)
(* Transport answers                                                   *)
(* ------------------------------------------------------------------ *)

\* An error text is a sequence of words; "x in str(e)" is Contains.
STICKERSET_INVALID == <<"STICKERSET_INVALID">>

MsgInvalid  == <<"Telegram server says - Bad Request:", "STICKERSET_INVALID">>
MsgTooMuch  == <<"Telegram server says - Bad Request:", "STICKERS_TOO_MUCH">>
MsgTooMany  == <<"Telegram server says - Bad Request:", "STICKERS_TOO_MANY">>
MsgOccupied == <<"Telegram server says - Bad Request:",
                 "sticker set name is already occupied">>
MsgNetwork  == <<"HTTP Client says - ClientConnectorError">>
\* str(asyncio.TimeoutError()) is the empty string
MsgTimeout  == <<>>

Answer(kind, exc, msg, n) == [ kind |-> kind, exc |-> exc, msg |-> msg, n |-> n ]

BadRequest(msg) == Answer("raise", "TelegramBadRequest", msg, 0)

OtherError(msg) == Answer("raise", "Exception", msg, 0)

\* bot.get_sticker_set: a set holding n stickers, or an exception
GetStickerSetAnswers ==
    { Answer("set", "", <<>>, n) : n \in {0, 1} }
        \cup { BadRequest(MsgInvalid), OtherError(MsgNetwork) }

\* bot.add_sticker_to_set: a bool, or an exception
AddStickerAnswers ==
    { Answer("true", "", <<>>, 0), Answer("false", "", <<>>, 0),
      BadRequest(MsgInvalid), BadRequest(MsgTooMuch), BadRequest(MsgTooMany),
      OtherError(MsgNetwork) }

\* bot.create_new_sticker_set: a bool, or an exception
CreateSetAnswers ==
    { Answer("true", "", <<>>, 0), Answer("false", "", <<>>, 0),
      BadRequest(MsgInvalid), BadRequest(MsgOccupied), OtherError(MsgTimeout) }

(* ------------------------------------------------------------------ *)
(* Pack Lifecycle Manager (telegram_sticker_manager.py)                *)
(* ------------------------------------------------------------------ *)

\* Contents of a sticker file: "image" is anything Image.open decodes,
\* "garbage" anything it raises on; "webp512" is the 512x512 RGBA WebP that
\* prepare_sticker_file encodes.
StickerFiles == { "image", "garbage" }

\* prepare_sticker_file, lines 84-116: on any exception the except branch
\* returns the input as it came
prepare_sticker_file(image_bytes) ==
    IF image_bytes = "image" THEN "webp512" ELSE image_bytes

\* config.py, line 61
STICKER_FILE_SIZE_LIMIT == 512 * 1024

STICKER_SIDE == 512

\* The images handed in: what Image.open makes of the bytes.  An input
\* that does not decode has decodable = FALSE.
ImageSides == { 1, STICKER_SIDE, 700 }

ImageModes == { "RGBA", "RGB", "L", "P" }

Images ==
    [ decodable : { TRUE }, format : { "PNG" }, width : ImageSides,
      height : ImageSides, mode : ImageModes ]
        \cup { [ decodable |-> FALSE, format |-> "", width |-> 0,
                 height |-> 0, mode |-> "" ] }

\* The length of what img.save(output, 'WEBP', quality=99, method=6)
\* writes follows from the pixels, which no line of the function looks at
\* or bounds: any length, below or above the ceiling.
EncodedSizes ==
    { STICKER_FILE_SIZE_LIMIT - 1, STICKER_FILE_SIZE_LIMIT,
      STICKER_FILE_SIZE_LIMIT + 1 }

\* prepare_sticker_file, lines 95-112, for an image that decodes: to RGBA,
\* to 512x512, saved as WebP once; the result is returned as it is
encode_sticker(img, encoded_size) ==
    [ decodable |-> TRUE, format |-> "WEBP",
      width |-> STICKER_SIDE, height |-> STICKER_SIDE,
      mode |-> "RGBA", size |-> encoded_size ]

\* prepare_sticker_file, lines 84-116, on images
prepare_sticker_image(img, encoded_size) ==
    IF img.decodable THEN encode_sticker(img, encoded_size) ELSE img

NotPrepared == [ called |-> FALSE, input |-> <<>>, output |-> <<>> ]

\* add_sticker_to_pack, lines 245-256: the outer except's classification
classify_add_error(error_str) ==
    IF Contains(error_str, STICKERSET_INVALID) THEN STICKERSET_INVALID
    ELSE IF Contains(error_str, <<"STICKERS_TOO_MANY">>)
            \/ Contains(error_str, <<"STICKERS_TOO_MUCH">>)
         THEN <<"pack_full">>
         ELSE error_str

\* what one transport call sequence did and returned: sent = the mutating
\* call was issued, accepted = the transport answered it True
Outcome(returned, success, error, sent, accepted) ==
    [ returned |-> returned, success |-> success, error |-> error,
      sent |-> sent, accepted |-> accepted ]

\* TelegramStickerManager.add_sticker_to_pack with the answers of
\* get_sticker_set (check), add_sticker_to_set (add) and get_sticker_set
\* after the sleep (verify)
add_sticker_to_pack(check, add, verify) ==
    IF check.kind = "raise"
    THEN IF Contains(check.msg, STICKERSET_INVALID)
         THEN Outcome(TRUE, FALSE, STICKERSET_INVALID, FALSE, FALSE)
         ELSE Outcome(TRUE, FALSE, check.msg, FALSE, FALSE)
    ELSE IF add.kind = "raise"
    THEN Outcome(TRUE, FALSE, classify_add_error(add.msg), TRUE, FALSE)
    ELSE IF add.kind = "false"
    THEN Outcome(TRUE, FALSE, <<"Failed to add sticker">>, TRUE, FALSE)
    ELSE IF verify.kind = "raise"
    THEN Outcome(TRUE, FALSE, classify_add_error(verify.msg), TRUE, TRUE)
    ELSE Outcome(TRUE, TRUE, <<>>, TRUE, TRUE)

\* TelegramStickerManager.create_sticker_pack with the answers of
\* create_new_sticker_set (create) and get_sticker_set after the sleep
\* (verify).  returned = FALSE: the function ran off its end (result falsy,
\* line 160) and handed back None.
create_sticker_pack(create, verify) ==
    IF create.kind = "raise"
    THEN IF create.exc = "TelegramBadRequest"
         THEN IF Contains(create.msg, STICKERSET_INVALID)
              THEN Outcome(TRUE, FALSE, <<"pack_exists">>, TRUE, FALSE)
              ELSE Outcome(TRUE, FALSE, create.msg, TRUE, FALSE)
         ELSE Outcome(TRUE, FALSE, create.msg, TRUE, FALSE)
    ELSE IF create.kind = "false"
    THEN Outcome(FALSE, FALSE, <<>>, TRUE, FALSE)
    ELSE IF verify.kind = "set" /\ verify.n > 0
    THEN Outcome(TRUE, TRUE, <<>>, TRUE, TRUE)
    ELSE Outcome(TRUE, FALSE, <<"Failed to create sticker pack">>, TRUE, TRUE)

\* line 305: the literal names 10, whatever MAX_PACKS_PER_USER is
PACK_LIMIT_ERROR == <<"Dostignut limit stikerpakov (10)">>

\* line 320
CREATE_FAILED_ERROR == <<"Ne udalos' sozdat' novyj stikerpak">>

\* the loop trying a pack again after an error it does not know
after_attempt_retrying(success, error) ==
    IF success THEN "return"
    ELSE IF error = STICKERSET_INVALID THEN "purge"
    ELSE IF error = <<"pack_full">> THEN "next"
    ELSE "retry"

\* the loop without the purge of an invalid pack
after_attempt_no_purge(success, error) ==
    IF success THEN "return" ELSE "next"

\* the loop purging a full pack as if it were invalid
after_attempt_purge_full(success, error) ==
    IF success THEN "return"
    ELSE IF error = STICKERSET_INVALID \/ error = <<"pack_full">> THEN "purge"
    ELSE "next"

\* lines 285-300: what the loop does with one pack's (success, error)
after_attempt(success, error) ==
    IF success THEN "return"
    ELSE IF error = STICKERSET_INVALID THEN "purge"
    ELSE IF error = <<"pack_full">> THEN "next"
    ELSE "next"

\* the ceiling tested with > in place of >=
pack_limit_reached_strict(existing_packs) ==
    Len(existing_packs) > MAX_PACKS_PER_USER

\* line 303
pack_limit_reached(existing_packs) ==
    Len(existing_packs) >= MAX_PACKS_PER_USER

\* the ordinal taken from the table's row counter, not from the fetched list
next_pack_number_from_counter(existing_packs) == pack_seq + 1

\* line 308
next_pack_number(existing_packs) == Len(existing_packs) + 1

\* line 309: user_name if pack_number == 1 else None
name_argument(pack_number, user_name) ==
    IF pack_number = 1 THEN user_name ELSE <<>>

(* ------------------------------------------------------------------ *)
(* Tasks                                                               *)
(* ------------------------------------------------------------------ *)

\* One task per incoming update; a task runs from one suspension point
\* (await) to the next in one step.
Tasks == {1, 2}

vars == << packs, pack_seq, items, stickers, processing_stickers, task,
          users, user_stats, fsm, handled, prepared >>

NoResult ==
    [ outcome |-> "none", success |-> FALSE, pack_name |-> <<>>, error |-> <<>> ]

Returned(success, pack_name, error) ==
    [ outcome |-> "returned", success |-> success, pack_name |-> pack_name,
      error |-> error ]

Raised ==
    [ outcome |-> "raised", success |-> FALSE, pack_name |-> <<>>, error |-> <<>> ]

IdleTask ==
    [ pc |-> "idle", handler |-> "", user_id |-> 0, sticker_id |-> 0,
      sticker_bytes |-> "", existing_packs |-> <<>>, i |-> 0,
      user_name |-> <<>>, calls |-> <<>>,
      result |-> NoResult, packs0 |-> {}, reply |-> "",
      checks |-> <<>>, removed_count |-> 0 ]

\* one transport call sequence of get_or_create_user_pack, as it went;
\* sticker_file is what the mutating call carried, if it was issued
Call(op, pack_name, pack_number, o, sticker_bytes) ==
    [ op |-> op, pack_name |-> pack_name, pack_number |-> pack_number,
      sent |-> o.sent, accepted |-> o.accepted, success |-> o.success,
      error |-> o.error,
      sticker_file |-> IF o.sent THEN prepare_sticker_file(sticker_bytes)
                                 ELSE "" ]

(* ------------------------------------------------------------------ *)
(* Users and statistics (db_manager/manager.py)                        *)
(* ------------------------------------------------------------------ *)

\* add_user, lines 297-324: the users row is inserted or refreshed, the
\* user_stats row inserted if missing
add_user(rows, stats, user_id) ==
    [ users |-> rows \cup { user_id },
      user_stats |-> IF user_id \in DOMAIN stats THEN stats
                     ELSE [ u \in DOMAIN stats \cup { user_id } |->
                              IF u = user_id THEN 0 ELSE stats[u] ] ]

\* UPDATE user_stats SET total_stickers = total_stickers + 1 WHERE user_id = ?
\* (lines 355-360 and 398-400): no row, no change
add_one_sticker(stats, user_id) ==
    IF user_id \in DOMAIN stats
    THEN [ stats EXCEPT ![user_id] = @ + 1 ]
    ELSE stats

\* save_sticker, lines 327-367: the row is inserted under the next id (the
\* connection does not enforce foreign keys) and the counter updated
save_sticker(rows, stats, user_id) ==
    LET sid == Cardinality(rows) + 1
    IN  [ stickers |-> rows \cup { [ id |-> sid, user_id |-> user_id ] },
          user_stats |-> add_one_sticker(stats, user_id),
          sticker_id |-> sid ]

\* increment_user_stat, lines 395-401
increment_user_stat(stats, user_id, stat_name) ==
    IF stat_name = "stickers_created" THEN add_one_sticker(stats, user_id)
    ELSE stats

(* ------------------------------------------------------------------ *)
(* FSM storage                                                         *)
(* ------------------------------------------------------------------ *)

\* state None is "", a key that is absent or None is <<>> or 0
NoSession ==
    [ state |-> "", prompt |-> <<>>, sticker_text |-> <<>>,
      adding_text_to_sticker |-> 0, editing_sticker_id |-> 0 ]

NoUpdate ==
    [ user_id |-> 0, kind |-> "", text |-> <<>>, state |-> "", handler |-> "" ]

Init ==
    /\ users = {}
    /\ user_stats = [ u \in {} |-> 0 ]
    /\ fsm = [ u \in UserIds |-> NoSession ]
    /\ handled = NoUpdate
    /\ prepared = NotPrepared
    /\ packs = {}
    /\ pack_seq = 0
    /\ items = {}
    /\ stickers = {}
    /\ processing_stickers = {}
    /\ task = [ t \in Tasks |-> IdleTask ]

\* Updates are handled one at a time: a handler starts when no other runs.
MayStart(t) ==
    /\ \A o \in Tasks : task[o].pc = "idle"
    /\ \A o \in Tasks : t <= o

(* ------------------------------------------------------------------ *)
(* Handlers (bot_handlers.py)                                          *)
(* ------------------------------------------------------------------ *)

\* generate_final_sticker, lines 1273-1346: the generated sticker is saved
\* (no handler of the model deletes stickers rows, so the new id is the row
\* count + 1) and
\* the automatic add begins.
StartGenerate(t, u) ==
    /\ pack_seq < MaxPackId
    /\ Cardinality(stickers) < MaxStickers
    /\ LET saved == save_sticker(stickers, user_stats, u)
       IN  /\ stickers' = saved.stickers
           /\ user_stats' =
                  increment_user_stat(saved.user_stats, u, "stickers_created")
           /\ task' = [ task EXCEPT ![t] =
                  [ IdleTask EXCEPT !.pc = "gc_fetch",
                                    !.handler = "generate_final_sticker",
                                    !.user_id = u,
                                    !.sticker_id = saved.sticker_id,
                                    !.sticker_bytes = "image" ] ]
    /\ UNCHANGED << packs, pack_seq, items, processing_stickers >>
    /\ UNCHANGED << users, fsm, handled, prepared >>

GenerateSticker(t, u) == MayStart(t) /\ StartGenerate(t, u)

\* cb_add_to_sticker_pack, lines 1879-1887: user u taps "add to pack" under
\* sticker s, which is not being processed
StartCb(t, u, s) ==
    /\ pack_seq < MaxPackId
    /\ s \in { st.id : st \in stickers }
    /\ s \notin processing_stickers
    /\ processing_stickers' = processing_stickers \cup { s }
    /\ task' = [ task EXCEPT ![t] =
           [ IdleTask EXCEPT !.pc = "cb_existing",
                             !.handler = "cb_add_to_sticker_pack",
                             !.user_id = u, !.sticker_id = s ] ]
    /\ UNCHANGED << packs, pack_seq, items, stickers >>
    /\ UNCHANGED << users, user_stats, fsm, handled, prepared >>

CbStart(t, u, s) == MayStart(t) /\ StartCb(t, u, s)

\* lines 1893-1909: the sticker already sits in one of the user's packs
InUserPack(s, u) ==
    \E it \in items : \E r \in packs :
        it.sticker_id = s /\ it.pack_id = r.id /\ r.user_id = u

CbCheckExisting(t) ==
    /\ task[t].pc = "cb_existing"
    /\ IF InUserPack(task[t].sticker_id, task[t].user_id)
       THEN /\ processing_stickers' = processing_stickers \ { task[t].sticker_id }
            /\ task' = [ task EXCEPT ![t].pc = "done", ![t].reply = "already_in_pack" ]
       ELSE /\ task' = [ task EXCEPT ![t].pc = "cb_load" ]
            /\ UNCHANGED processing_stickers
    /\ UNCHANGED << packs, pack_seq, items, stickers >>
    /\ UNCHANGED << users, user_stats, fsm, handled, prepared >>

\* lines 1911-1937: the sticker row of this user and its file, whose
\* contents are read as they are
CbLoadSticker(t, file_exists, sticker_bytes) ==
    /\ task[t].pc = "cb_load"
    /\ LET found == \E st \in stickers :
                        st.id = task[t].sticker_id /\ st.user_id = task[t].user_id
       IN  IF found /\ file_exists
           THEN /\ task' = [ task EXCEPT ![t].pc = "gc_fetch",
                                         ![t].sticker_bytes = sticker_bytes ]
                /\ UNCHANGED processing_stickers
           ELSE /\ processing_stickers' =
                        processing_stickers \ { task[t].sticker_id }
                /\ task' = [ task EXCEPT ![t].pc = "done",
                       ![t].reply = IF found THEN "file_not_found"
                                             ELSE "sticker_not_found" ]
    /\ UNCHANGED << packs, pack_seq, items, stickers >>
    /\ UNCHANGED << users, user_stats, fsm, handled, prepared >>

(* ------------------------------------------------------------------ *)
(* get_or_create_user_pack, step by step                               *)
(* ------------------------------------------------------------------ *)

\* line 274
GcFetch(t) ==
    /\ task[t].pc = "gc_fetch"
    /\ \E list \in get_user_packs(packs, items, task[t].user_id) :
          task' = [ task EXCEPT ![t].pc = "gc_loop",
                                ![t].existing_packs = list,
                                ![t].i = 1,
                                ![t].packs0 = packs ]
    /\ UNCHANGED << packs, pack_seq, items, stickers, processing_stickers >>
    /\ UNCHANGED << users, user_stats, fsm, handled, prepared >>

\* lines 277-300, up to the next await: one pack is tried
GcTryPack(t) ==
    /\ task[t].pc = "gc_loop"
    /\ task[t].i <= Len(task[t].existing_packs)
    /\ \E o \in { add_sticker_to_pack(check, add, verify) :
                    check \in GetStickerSetAnswers, add \in AddStickerAnswers,
                    verify \in GetStickerSetAnswers } :
          LET pack == task[t].existing_packs[task[t].i]
              todo == after_attempt(o.success, o.error)
              call == Call("add", pack.pack_name, pack.pack_number, o,
                           task[t].sticker_bytes)
          IN  task' = [ task EXCEPT
                  ![t].calls = Append(@, call),
                  ![t].pc = CASE todo = "return" -> "h_result"
                              [] todo = "purge" -> "gc_purge"
                              [] OTHER -> "gc_loop",
                  ![t].i = IF todo = "next" THEN @ + 1 ELSE @,
                  ![t].result = IF todo = "return"
                                THEN Returned(TRUE, pack.pack_name, <<>>)
                                ELSE @ ]
    /\ UNCHANGED << packs, pack_seq, items, stickers, processing_stickers >>
    /\ UNCHANGED << users, user_stats, fsm, handled, prepared >>

\* lines 292-296
GcPurge(t) ==
    /\ task[t].pc = "gc_purge"
    /\ packs' = delete_user_pack(packs, task[t].user_id,
                    task[t].existing_packs[task[t].i].pack_name)
    /\ task' = [ task EXCEPT ![t].pc = "gc_loop", ![t].i = @ + 1 ]
    /\ UNCHANGED << pack_seq, items, stickers, processing_stickers >>
    /\ UNCHANGED << users, user_stats, fsm, handled, prepared >>

\* lines 303-305
GcLimit(t) ==
    /\ task[t].pc = "gc_loop"
    /\ task[t].i > Len(task[t].existing_packs)
    /\ pack_limit_reached(task[t].existing_packs)
    /\ task' = [ task EXCEPT ![t].pc = "h_result",
                             ![t].result = Returned(FALSE, <<>>, PACK_LIMIT_ERROR) ]
    /\ UNCHANGED << packs, pack_seq, items, stickers, processing_stickers >>
    /\ UNCHANGED << users, user_stats, fsm, handled, prepared >>

\* lines 307-320.  The display name is an input of the call; it is read
\* here for the first time, so it is drawn here, and kept only as the
\* argument handed to _get_pack_name.
GcCreate(t) ==
    /\ task[t].pc = "gc_loop"
    /\ task[t].i > Len(task[t].existing_packs)
    /\ ~ pack_limit_reached(task[t].existing_packs)
    /\ \E first_name \in FirstNames,
          o \in { create_sticker_pack(create, verify) :
                    create \in CreateSetAnswers, verify \in GetStickerSetAnswers } :
          LET user_name     == first_name_or_User(first_name)
              pack_number   == next_pack_number(task[t].existing_packs)
              name_arg      == name_argument(pack_number, user_name)
              new_pack_name == get_pack_name(task[t].user_id, pack_number, name_arg)
              call == Call("create", new_pack_name, pack_number, o,
                           task[t].sticker_bytes)
          IN  task' = [ task EXCEPT
                  ![t].pc = "h_result",
                  ![t].user_name = name_arg,
                  ![t].calls = Append(@, call),
                  ![t].result =
                      IF ~ o.returned THEN Raised
                      ELSE IF o.success THEN Returned(TRUE, new_pack_name, <<>>)
                      ELSE Returned(FALSE, <<>>,
                               IF o.error # <<>> THEN o.error
                                                 ELSE CREATE_FAILED_ERROR) ]
    /\ UNCHANGED << packs, pack_seq, items, stickers, processing_stickers >>
    /\ UNCHANGED << users, user_stats, fsm, handled, prepared >>

(* ------------------------------------------------------------------ *)
(* The handlers after the call                                         *)
(* ------------------------------------------------------------------ *)

\* lines 1361-1362 / 1954-1955
HSavePack(t) ==
    /\ task[t].pc = "h_result"
    /\ task[t].result.outcome = "returned"
    /\ task[t].result.success
    /\ pack_seq < MaxPackId
    /\ packs' = save_user_pack(packs, pack_seq, task[t].user_id,
                    task[t].result.pack_name)
    /\ pack_seq' = pack_seq + 1
    /\ task' = [ task EXCEPT ![t].pc = "h_add_item" ]
    /\ UNCHANGED << items, stickers, processing_stickers >>
    /\ UNCHANGED << users, user_stats, fsm, handled, prepared >>

\* db add_sticker_to_pack (lines 568-596), then the handler's reply and its
\* finally (lines 1363-1388, 1489 / 1956-1983, 2082-2085)
HAddItem(t) ==
    /\ task[t].pc = "h_add_item"
    /\ LET db == db_add_sticker_to_pack(packs, pack_seq, items, task[t].user_id,
                      task[t].result.pack_name, task[t].sticker_id)
       IN  /\ db.pack_seq <= MaxPackId
           /\ packs' = db.packs
           /\ pack_seq' = db.pack_seq
           /\ items' = db.items
    /\ processing_stickers' = processing_stickers \ { task[t].sticker_id }
    /\ task' = [ task EXCEPT ![t].pc = "done", ![t].reply = "added" ]
    /\ UNCHANGED stickers
    /\ UNCHANGED << users, user_stats, fsm, handled, prepared >>

\* lines 1390-1472 / 1985-2072: the branch the handler takes on a failure
failure_reply(error) ==
    IF Contains(error, STICKERSET_INVALID) THEN "cleanup_and_retry"
    ELSE IF error = PACK_LIMIT_ERROR THEN "pack_limit"
    ELSE IF error = <<"pack_full">> THEN "pack_full"
    ELSE "error"

HFail(t) ==
    /\ task[t].pc = "h_result"
    /\ task[t].result.outcome = "returned"
    /\ ~ task[t].result.success
    /\ processing_stickers' = processing_stickers \ { task[t].sticker_id }
    /\ task' = [ task EXCEPT ![t].pc = "done",
                             ![t].reply = failure_reply(task[t].result.error) ]
    /\ UNCHANGED << packs, pack_seq, items, stickers >>
    /\ UNCHANGED << users, user_stats, fsm, handled, prepared >>

\* lines 1474-1489 / 2074-2085: get_or_create_user_pack raised
HExcept(t) ==
    /\ task[t].pc = "h_result"
    /\ task[t].result.outcome = "raised"
    /\ processing_stickers' = processing_stickers \ { task[t].sticker_id }
    /\ task' = [ task EXCEPT ![t].pc = "done", ![t].reply = "exception" ]
    /\ UNCHANGED << packs, pack_seq, items, stickers >>
    /\ UNCHANGED << users, user_stats, fsm, handled, prepared >>

\* the handler has returned
Finish(t) ==
    /\ task[t].pc = "done"
    /\ task' = [ task EXCEPT ![t] = IdleTask ]
    /\ UNCHANGED << packs, pack_seq, items, stickers, processing_stickers >>
    /\ UNCHANGED << users, user_stats, fsm, handled, prepared >>

Next ==
    \/ \E t \in Tasks, u \in UserIds : GenerateSticker(t, u)
    \/ \E t \in Tasks, u \in UserIds, s \in 1..MaxStickers : CbStart(t, u, s)
    \/ \E t \in Tasks : CbCheckExisting(t)
    \/ \E t \in Tasks, file_exists \in BOOLEAN, sticker_bytes \in StickerFiles :
           CbLoadSticker(t, file_exists, sticker_bytes)
    \/ \E t \in Tasks : GcFetch(t)
    \/ \E t \in Tasks : GcTryPack(t)
    \/ \E t \in Tasks : GcPurge(t)
    \/ \E t \in Tasks : GcLimit(t)
    \/ \E t \in Tasks : GcCreate(t)
    \/ \E t \in Tasks : HSavePack(t)
    \/ \E t \in Tasks : HAddItem(t)
    \/ \E t \in Tasks : HFail(t)
    \/ \E t \in Tasks : HExcept(t)
    \/ \E t \in Tasks : Finish(t)

Spec == Init /\ [][Next]_vars

(* ------------------------------------------------------------------ *)
(* Overlapping updates                                                 *)
(* ------------------------------------------------------------------ *)

\* The dispatcher runs every update as a task of its own on one event
\* loop: a handler may start while another is suspended at an await.  Of
\* the idle tasks the least one starts (they are interchangeable).
\* Handlers overlap while the tables are small (the bounds above) and run
\* one at a time afterwards.
MayOverlap(t) ==
    \/ /\ task[t].pc = "idle"
       /\ \A o \in Tasks : o < t => task[o].pc # "idle"
       /\ pack_seq < MaxOverlapPackId
       /\ Cardinality(stickers) < MaxOverlapStickers
    \/ MayStart(t)

GenerateStickerOverlapping(t, u) ==
    /\ MayOverlap(t)
    /\ StartGenerate(t, u)

\* cb_add_to_sticker_pack, lines 1883-1885: the tapped sticker is in
\* processing_stickers; the handler answers "already being processed" ...
CbReject(t, u, s) ==
    /\ MayOverlap(t)
    /\ s \in { st.id : st \in stickers }
    /\ s \in processing_stickers
    /\ task' = [ task EXCEPT ![t] =
           [ IdleTask EXCEPT !.pc = "cb_rejected",
                             !.handler = "cb_add_to_sticker_pack",
                             !.user_id = u, !.sticker_id = s ] ]
    /\ UNCHANGED << packs, pack_seq, items, stickers, processing_stickers >>
    /\ UNCHANGED << users, user_stats, fsm, handled, prepared >>

\* ... and returns from inside the try, so the finally of lines 2082-2085
\* runs for it as for every other exit
CbRejected(t) ==
    /\ task[t].pc = "cb_rejected"
    /\ processing_stickers' = processing_stickers \ { task[t].sticker_id }
    /\ task' = [ task EXCEPT ![t].pc = "done",
                             ![t].reply = "already_processing" ]
    /\ UNCHANGED << packs, pack_seq, items, stickers >>
    /\ UNCHANGED << users, user_stats, fsm, handled, prepared >>

CbStartOverlapping(t, u, s) ==
    /\ MayOverlap(t)
    /\ StartCb(t, u, s)

NextOverlapping ==
    \/ \E t \in Tasks, u \in UserIds : GenerateStickerOverlapping(t, u)
    \/ \E t \in Tasks, u \in UserIds, s \in 1..MaxStickers :
           CbStartOverlapping(t, u, s)
    \/ \E t \in Tasks, u \in UserIds, s \in 1..MaxStickers : CbReject(t, u, s)
    \/ \E t \in Tasks : CbRejected(t)
    \/ \E t \in Tasks : CbCheckExisting(t)
    \/ \E t \in Tasks, file_exists \in BOOLEAN, sticker_bytes \in StickerFiles :
           CbLoadSticker(t, file_exists, sticker_bytes)
    \/ \E t \in Tasks : GcFetch(t)
    \/ \E t \in Tasks : GcTryPack(t)
    \/ \E t \in Tasks : GcPurge(t)
    \/ \E t \in Tasks : GcLimit(t)
    \/ \E t \in Tasks : GcCreate(t)
    \/ \E t \in Tasks : HSavePack(t)
    \/ \E t \in Tasks : HAddItem(t)
    \/ \E t \in Tasks : HFail(t)
    \/ \E t \in Tasks : HExcept(t)
    \/ \E t \in Tasks : Finish(t)

SpecOverlapping == Init /\ [][NextOverlapping]_vars

(* ------------------------------------------------------------------ *)
(* /clean_packs                                                        *)
(* ------------------------------------------------------------------ *)

\* cleanup_invalid_packs deleting a pack on any error of the check
cleanup_removes_on_any_error(answer) == answer.kind = "raise"

\* cleanup_invalid_packs, lines 334-347: the answers of get_sticker_set on
\* which the pack is deleted
cleanup_removes(answer) ==
    answer.kind = "raise" /\ Contains(answer.msg, STICKERSET_INVALID)

\* cmd_clean_packs, lines 954-962
CleanPacks(t, u) ==
    /\ MayStart(t)
    /\ task' = [ task EXCEPT ![t] =
           [ IdleTask EXCEPT !.pc = "cl_fetch", !.handler = "cmd_clean_packs",
                             !.user_id = u ] ]
    /\ UNCHANGED << packs, pack_seq, items, stickers, processing_stickers >>
    /\ UNCHANGED << users, user_stats, fsm, handled, prepared >>

\* cleanup_invalid_packs, lines 329-330
ClFetch(t) ==
    /\ task[t].pc = "cl_fetch"
    /\ \E list \in get_user_packs(packs, items, task[t].user_id) :
          task' = [ task EXCEPT ![t].pc = "cl_loop",
                                ![t].existing_packs = list,
                                ![t].i = 1,
                                ![t].packs0 = packs ]
    /\ UNCHANGED << packs, pack_seq, items, stickers, processing_stickers >>
    /\ UNCHANGED << users, user_stats, fsm, handled, prepared >>

\* lines 332-349: get_sticker_set for one pack
ClCheck(t) ==
    /\ task[t].pc = "cl_loop"
    /\ task[t].i <= Len(task[t].existing_packs)
    /\ \E answer \in GetStickerSetAnswers :
          task' = [ task EXCEPT
              ![t].checks = Append(@, answer),
              ![t].pc = IF cleanup_removes(answer) THEN "cl_delete" ELSE @,
              ![t].i = IF cleanup_removes(answer) THEN @ ELSE @ + 1 ]
    /\ UNCHANGED << packs, pack_seq, items, stickers, processing_stickers >>
    /\ UNCHANGED << users, user_stats, fsm, handled, prepared >>

\* lines 342-346
ClDelete(t) ==
    /\ task[t].pc = "cl_delete"
    /\ packs' = delete_user_pack(packs, task[t].user_id,
                    task[t].existing_packs[task[t].i].pack_name)
    /\ task' = [ task EXCEPT ![t].pc = "cl_loop", ![t].i = @ + 1,
                             ![t].removed_count = @ + 1 ]
    /\ UNCHANGED << pack_seq, items, stickers, processing_stickers >>
    /\ UNCHANGED << users, user_stats, fsm, handled, prepared >>

\* line 350, and cmd_clean_packs, lines 964-985
ClReturn(t) ==
    /\ task[t].pc = "cl_loop"
    /\ task[t].i > Len(task[t].existing_packs)
    /\ task' = [ task EXCEPT ![t].pc = "done",
           ![t].reply = IF task[t].removed_count > 0 THEN "cleaned"
                                                     ELSE "all_valid" ]
    /\ UNCHANGED << packs, pack_seq, items, stickers, processing_stickers >>
    /\ UNCHANGED << users, user_stats, fsm, handled, prepared >>

NextCleaning ==
    \/ Next
    \/ \E t \in Tasks, u \in UserIds : CleanPacks(t, u)
    \/ \E t \in Tasks : ClFetch(t)
    \/ \E t \in Tasks : ClCheck(t)
    \/ \E t \in Tasks : ClDelete(t)
    \/ \E t \in Tasks : ClReturn(t)

SpecCleaning == Init /\ [][NextCleaning]_vars

(* ------------------------------------------------------------------ *)
(* /start                                                              *)
(* ------------------------------------------------------------------ *)

\* cmd_start, lines 258-280: the session is cleared and the user recorded;
\* the only call of add_user in the program.  /start is explored while the
\* stickers table holds at most MaxStartStickers rows.
CmdStart(t, u) ==
    /\ MayStart(t)
    /\ Cardinality(stickers) <= MaxStartStickers
    /\ LET db == add_user(users, user_stats, u)
       IN  /\ users' = db.users
           /\ user_stats' = db.user_stats
    /\ fsm' = [ fsm EXCEPT ![u] = NoSession ]
    /\ UNCHANGED << packs, pack_seq, items, stickers, processing_stickers,
                    task, handled, prepared >>

NextUsers ==
    \/ Next
    \/ \E t \in Tasks, u \in UserIds : CmdStart(t, u)

SpecUsers == Init /\ [][NextUsers]_vars

(* ------------------------------------------------------------------ *)
(* The conversation                                                    *)
(* ------------------------------------------------------------------ *)

\* process_sticker_text, line 1180: message.text.strip()[:20]
MAX_TEXT_LEN == 20
\* handle_text_prompt, lines 628 and 632
MIN_PROMPT_LEN == 3
MAX_PROMPT_LEN == 200

\* the kinds of message updates: with a text, or with neither text nor
\* voice (a photo, say), whose message.text is None
MessageKinds == { "text", "photo" }

\* texts users send; none of them is a command
MessageTexts ==
    { <<"o", "k">>, <<" ", "L", "O", "L", " ">>,
      [ i \in 1..(MAX_TEXT_LEN + 1) |-> "x" ] }

RECURSIVE lstrip(_)
lstrip(str) ==
    IF str # <<>> /\ Head(str) = " " THEN lstrip(Tail(str)) ELSE str

RECURSIVE rstrip(_)
rstrip(str) ==
    IF str # <<>> /\ str[Len(str)] = " "
    THEN rstrip(SubSeq(str, 1, Len(str) - 1))
    ELSE str

\* str.strip()
strip(str) == rstrip(lstrip(str))

\* str[:n]
prefix(str, n) == SubSeq(str, 1, IF Len(str) < n THEN Len(str) ELSE n)

\* The message handlers of the dispatcher in the order of their
\* registration (the order of the decorators in bot_handlers.py); the
\* first one whose filters pass gets the update, and no other does.
\* Lines 623, 712, 735 and 1176; the command handlers are left out, the
\* texts not being commands.
message_handler(state, kind) ==
    IF state = "waiting_for_prompt" /\ kind = "text" THEN "handle_text_prompt"
    ELSE IF state = "waiting_for_feedback_comment" /\ kind = "text"
         THEN "handle_feedback_comment"
    ELSE IF kind = "text" THEN "handle_any_text"
    ELSE IF state = "waiting_for_text" THEN "process_sticker_text"
    ELSE ""

\* handle_text_prompt, lines 624-650
handle_text_prompt(session, text) ==
    LET prompt == strip(text)
    IN  IF Len(prompt) < MIN_PROMPT_LEN \/ Len(prompt) > MAX_PROMPT_LEN
        THEN session
        ELSE [ session EXCEPT !.prompt = prompt, !.state = "waiting_for_style" ]

\* handle_any_text, lines 736-752: outside every state the text becomes
\* the prompt; inside a state nothing is done
handle_any_text(session, text) ==
    IF session.state = ""
    THEN [ session EXCEPT !.prompt = strip(text), !.state = "waiting_for_style" ]
    ELSE session

\* process_sticker_text, lines 1177-1206, and the functions it calls
\* (lines 1508-1585, 1588-1678), which save a copy of the sticker if it
\* is found and clear the session on every path.  A message without text
\* raises at line 1180.
process_sticker_text(session, rows, stats, user_id, kind, text) ==
    LET cut   == prefix(strip(text), MAX_TEXT_LEN)
        sid   == IF session.adding_text_to_sticker # 0
                 THEN session.adding_text_to_sticker
                 ELSE session.editing_sticker_id
        found == \E st \in rows : st.id = sid /\ st.user_id = user_id
        saved == save_sticker(rows, stats, user_id)
    IN  IF kind # "text"
        THEN [ session |-> session, stickers |-> rows, user_stats |-> stats ]
        ELSE IF sid # 0
        THEN IF found /\ Cardinality(rows) < MaxStickers
             THEN [ session |-> NoSession, stickers |-> saved.stickers,
                    user_stats |-> saved.user_stats ]
             ELSE [ session |-> NoSession, stickers |-> rows,
                    user_stats |-> stats ]
        ELSE [ session |-> [ session EXCEPT !.sticker_text = cut ],
               stickers |-> rows, user_stats |-> stats ]

\* a message update of user u is dispatched and handled
Message(u, kind, text) ==
    LET session == fsm[u]
        handler == message_handler(session.state, kind)
        done    == process_sticker_text(session, stickers, user_stats, u,
                                        kind, text)
    IN  /\ handled' = [ user_id |-> u, kind |-> kind, text |-> text,
                        state |-> session.state, handler |-> handler ]
        /\ fsm' = [ fsm EXCEPT ![u] =
               CASE handler = "handle_text_prompt" ->
                        handle_text_prompt(session, text)
                 [] handler = "handle_feedback_comment" -> NoSession
                 [] handler = "handle_any_text" -> handle_any_text(session, text)
                 [] handler = "process_sticker_text" -> done.session
                 [] OTHER -> session ]
        /\ stickers' = IF handler = "process_sticker_text" THEN done.stickers
                                                           ELSE stickers
        /\ user_stats' = IF handler = "process_sticker_text"
                         THEN done.user_stats ELSE user_stats
        /\ UNCHANGED << packs, pack_seq, items, processing_stickers, task,
                        users, prepared >>

\* cb_create_sticker, lines 453-484
CbCreateSticker(u) ==
    /\ fsm' = [ fsm EXCEPT ![u] =
           [ NoSession EXCEPT !.state = "waiting_for_prompt" ] ]
    /\ UNCHANGED << packs, pack_seq, items, stickers, processing_stickers,
                    task, users, user_stats, handled, prepared >>

\* cb_add_text, lines 1084-1102
CbAddText(u) ==
    /\ fsm' = [ fsm EXCEPT ![u].state = "waiting_for_text" ]
    /\ UNCHANGED << packs, pack_seq, items, stickers, processing_stickers,
                    task, users, user_stats, handled, prepared >>

\* cb_add_text_to_existing, lines 1144-1156: the button under sticker s
CbAddTextToExisting(u, s) ==
    /\ fsm' = [ fsm EXCEPT ![u].adding_text_to_sticker = s,
                           ![u].state = "waiting_for_text" ]
    /\ UNCHANGED << packs, pack_seq, items, stickers, processing_stickers,
                    task, users, user_stats, handled, prepared >>

\* cb_cancel, lines 1118-1126
CbCancel(u) ==
    /\ fsm' = [ fsm EXCEPT ![u] = NoSession ]
    /\ UNCHANGED << packs, pack_seq, items, stickers, processing_stickers,
                    task, users, user_stats, handled, prepared >>

NextConversation ==
    \/ \E u \in UserIds, kind \in MessageKinds, text \in MessageTexts :
           Message(u, kind, IF kind = "text" THEN text ELSE <<>>)
    \/ \E u \in UserIds : CbCreateSticker(u)
    \/ \E u \in UserIds : CbAddText(u)
    \/ \E u \in UserIds, s \in 1..MaxStickers : CbAddTextToExisting(u, s)
    \/ \E u \in UserIds : CbCancel(u)

SpecConversation == Init /\ [][NextConversation]_vars

(* ------------------------------------------------------------------ *)
(* prepare_sticker_file on its own                                     *)
(* ------------------------------------------------------------------ *)

InitPrepare ==
    /\ users = {}
    /\ user_stats = [ u \in {} |-> 0 ]
    /\ fsm = [ u \in UserIds |-> NoSession ]
    /\ handled = NoUpdate
    /\ packs = {}
    /\ pack_seq = 0
    /\ items = {}
    /\ stickers = {}
    /\ processing_stickers = {}
    /\ task = [ t \in Tasks |-> IdleTask ]
    /\ \E img \in Images :
           prepared = [ called |-> FALSE, input |-> img, output |-> <<>> ]

PrepareStickerFile(encoded_size) ==
    /\ ~ prepared.called
    /\ prepared' = [ prepared EXCEPT
           !.called = TRUE,
           !.output = prepare_sticker_image(prepared.input, encoded_size) ]
    /\ UNCHANGED << packs, pack_seq, items, stickers, processing_stickers,
                    task, users, user_stats, fsm, handled >>

NextPrepare == \E encoded_size \in EncodedSizes : PrepareStickerFile(encoded_size)

SpecPrepare == InitPrepare /\ [][NextPrepare]_vars

(* ------------------------------------------------------------------ *)
(* Properties                                                          *)
(* ------------------------------------------------------------------ *)

UserPacks(u) == { r \in packs : r.user_id = u }

\* get_or_create_user_pack has returned or raised
AtReturn(t) == task[t].pc \in { "h_result", "h_add_item", "done" }

\* the handler has run to its end
Done(t) == task[t].pc = "done"

\* an append that failed with an error other than invalid-set and full-set
OtherAddError(c) ==
    /\ c.op = "add"
    /\ ~ c.success
    /\ c.error # STICKERSET_INVALID
    /\ c.error # <<"pack_full">>

\* C1: an append failing with an error that is neither STICKERSET_INVALID
\* nor pack_full ends the call: it is the call's last transport call, and
\* the call returns failure with that error.
C1_OtherErrorAborts ==
    \A t \in Tasks : \A k \in 1..Len(task[t].calls) :
        OtherAddError(task[t].calls[k]) =>
            /\ k = Len(task[t].calls)
            /\ AtReturn(t)
            /\ task[t].result = Returned(FALSE, <<>>, task[t].calls[k].error)

\* the add flow of a user whose only registered pack the transport reported
\* gone, the replacement set having been created and recorded
C2_Case(t) ==
    /\ Done(t)
    /\ task[t].reply = "added"
    /\ Len(task[t].existing_packs) = 1
    /\ Len(task[t].calls) = 2
    /\ task[t].calls[1].op = "add"
    /\ task[t].calls[1].error = STICKERSET_INVALID
    /\ task[t].calls[2].op = "create"
    /\ task[t].calls[2].success

C3_Case(t) ==
    /\ AtReturn(t)
    /\ Len(task[t].existing_packs) = 1
    /\ task[t].existing_packs[1].pack_number = 1
    /\ Len(task[t].calls) >= 1
    /\ task[t].calls[1].op = "add"
    /\ task[t].calls[1].error = <<"pack_full">>

\* C3: in that call pack #1's row stays as it was, a set is created for
\* ordinal 2 under the numeric name, and once the flow has added the sticker
\* it is associated with a pack row whose pack_number is 2.
C3_FullRollsOver ==
    \A t \in Tasks :
        C3_Case(t) =>
            LET old == task[t].existing_packs[1]
                u   == task[t].user_id
            IN  /\ \E r \in packs : r \in task[t].packs0 /\ r.id = old.id
                       /\ r.user_id = u /\ r.pack_name = old.pack_name
                       /\ r.pack_number = 1
                /\ Len(task[t].calls) = 2
                /\ task[t].calls[2].op = "create"
                /\ task[t].calls[2].pack_number = 2
                /\ task[t].calls[2].pack_name = get_pack_name(u, 2, <<>>)
                /\ (Done(t) /\ task[t].reply = "added") =>
                       \E r \in UserPacks(u) :
                           /\ r.pack_name = task[t].result.pack_name
                           /\ r.pack_number = 2
                           /\ \E it \in items :
                                  /\ it.pack_id = r.id
                                  /\ it.sticker_id = task[t].sticker_id

\* C3 witness: such a flow has ended with the sticker added
C3_Witness ==
    \E t \in Tasks : C3_Case(t) /\ Done(t) /\ task[t].reply = "added"

\* every known pack tried and reported full, the user being at the ceiling
C4_Case(t) ==
    /\ Len(task[t].existing_packs) >= MAX_PACKS_PER_USER
    /\ Len(task[t].calls) >= Len(task[t].existing_packs)
    /\ \A k \in 1..Len(task[t].existing_packs) :
           task[t].calls[k].op = "add" /\ task[t].calls[k].error = <<"pack_full">>

\* C4: for a user at the ceiling whose packs are all reported full, no
\* create-set call is made, the Registry is left as it was, and the call
\* returns failure with the pack-limit reason.
C4_PackLimit ==
    \A t \in Tasks :
        C4_Case(t) =>
            /\ \A k \in 1..Len(task[t].calls) : task[t].calls[k].op # "create"
            /\ packs = task[t].packs0
            /\ task[t].pc \in { "gc_loop", "h_result", "done" }
            /\ AtReturn(t) =>
                   task[t].result = Returned(FALSE, <<>>, PACK_LIMIT_ERROR)
            /\ Done(t) => task[t].reply = "pack_limit"

\* C4 witness: such a call has returned
C4_Witness ==
    \E t \in Tasks : C4_Case(t) /\ Done(t)

\* C5: the pack-limit failure is returned only if the user's pack records, at
\* that point, number at least the ceiling.
C5_LimitCountsRecords ==
    \A t \in Tasks :
        (task[t].pc = "h_result" /\ task[t].result.outcome = "returned"
            /\ task[t].result.error = PACK_LIMIT_ERROR) =>
            Cardinality(UserPacks(task[t].user_id)) >= MAX_PACKS_PER_USER

\* C6: the known packs are tried one at a time in ascending pack_number,
\* and a successful append is the call's last transport call: the call
\* returns success with that pack's name.
C6_TriesInOrderStopsOnSuccess ==
    \A t \in Tasks :
        /\ OrderedByPackNumber(task[t].existing_packs)
        /\ \A k \in 1..Len(task[t].calls) :
               LET c == task[t].calls[k]
               IN  c.op = "add" =>
                       /\ k <= Len(task[t].existing_packs)
                       /\ c.pack_name = task[t].existing_packs[k].pack_name
                       /\ c.success =>
                              /\ k = Len(task[t].calls)
                              /\ AtReturn(t)
                              /\ task[t].result = Returned(TRUE, c.pack_name, <<>>)

\* C6 witness: of two known packs the first was refused and the second
\* accepted the sticker
C6_Witness ==
    \E t \in Tasks :
        /\ Done(t)
        /\ Len(task[t].existing_packs) = 2
        /\ task[t].existing_packs[1].pack_number < task[t].existing_packs[2].pack_number
        /\ Len(task[t].calls) = 2
        /\ ~ task[t].calls[1].success
        /\ task[t].calls[2].op = "add"
        /\ task[t].calls[2].success

\* C7: a set created and recorded has ordinal (count of known packs + 1),
\* the generator's name for that ordinal, and a pack row carrying that
\* ordinal.
C7_RecordedOrdinal ==
    \A t \in Tasks :
        (Done(t) /\ task[t].reply = "added"
            /\ task[t].calls[Len(task[t].calls)].op = "create") =>
            LET c == task[t].calls[Len(task[t].calls)]
                u == task[t].user_id
            IN  /\ c.pack_number = Len(task[t].existing_packs) + 1
                /\ c.pack_name = get_pack_name(u, c.pack_number, task[t].user_name)
                /\ \E r \in UserPacks(u) :
                       r.pack_name = c.pack_name /\ r.pack_number = c.pack_number

\* the first clause of C8: after a successful flow the user owns a pack row
\* of the returned name, linked to the sticker by one association row
C8_Recorded(t) ==
    \E r \in UserPacks(task[t].user_id) :
        /\ r.pack_name = task[t].result.pack_name
        /\ \A q \in packs : q.pack_name = r.pack_name => q = r
        /\ Cardinality({ it \in items : it.pack_id = r.id
                            /\ it.sticker_id = task[t].sticker_id }) = 1

\* C8: after a successful add flow the Registry holds the pack row and
\* exactly one association row; for a user who had no packs this is one new
\* pack with ordinal 1 and one association.
C8_SuccessRecorded ==
    \A t \in Tasks :
        (Done(t) /\ task[t].reply = "added") =>
            /\ C8_Recorded(t)
            /\ Len(task[t].existing_packs) = 0 =>
                   /\ Cardinality(UserPacks(task[t].user_id)) = 1
                   /\ \A r \in UserPacks(task[t].user_id) :
                          /\ r.pack_number = 1
                          /\ Cardinality({ it \in items : it.pack_id = r.id }) = 1

\* C9: get_or_create_user_pack returns and never raises; a success carries a
\* non-empty pack name, a failure a non-empty reason.
C9_AlwaysReturns ==
    \A t \in Tasks :
        AtReturn(t) =>
            /\ task[t].result.outcome = "returned"
            /\ task[t].result.success => task[t].result.pack_name # <<>>
            /\ ~ task[t].result.success => task[t].result.error # <<>>

\* C10: a name generated for one user is never the name of a pack generated
\* for another user.
C10_NamesDifferAcrossUsers ==
    \A t \in Tasks : \A k \in 1..Len(task[t].calls) :
        task[t].calls[k].op = "create" =>
            \A r \in packs :
                r.user_id # task[t].user_id =>
                    r.pack_name # task[t].calls[k].pack_name

\* C11..C20

\* C12: a first-pack name generated from a display name of which nothing
\* survives transliteration and filtering is the numeric-scheme name.
C12_EmptyTranslitFallsBack ==
    \A t \in Tasks : \A k \in 1..Len(task[t].calls) :
        LET c == task[t].calls[k]
        IN  (c.op = "create" /\ c.pack_number = 1
                /\ translit_name(task[t].user_name) = <<>>) =>
                c.pack_name = get_pack_name(task[t].user_id, 1, <<>>)

\* the pack names the association operation is called with: every recorded
\* name and, for a pack not recorded, the user's numeric first-pack name
C13_Names(u) ==
    { r.pack_name : r \in packs } \cup { get_pack_name(u, 1, <<>>) }

\* C13: from every reachable Registry, for every user, pack name and
\* sticker id, a second call of DatabaseManager.add_sticker_to_pack changes
\* nothing the first call left, and exactly one association row links the
\* pack to the sticker.
C13_AssociationIdempotent ==
    \A u \in UserIds : \A s \in 1..MaxStickers : \A name \in C13_Names(u) :
        LET first  == db_add_sticker_to_pack(packs, pack_seq, items, u, name, s)
            second == db_add_sticker_to_pack(first.packs, first.pack_seq,
                                             first.items, u, name, s)
        IN  /\ second = first
            /\ \E r \in second.packs :
                   /\ r.pack_name = name
                   /\ r.user_id = u
                   /\ Cardinality({ it \in second.items :
                          it.pack_id = r.id /\ it.sticker_id = s }) = 1

\* C13 witness: a handler has recorded an association, and the pack it
\* recorded it for is still registered
C13_Witness ==
    \E t \in Tasks :
        /\ Done(t)
        /\ task[t].reply = "added"
        /\ \E r \in UserPacks(task[t].user_id) : \E it \in items :
               /\ r.pack_name = task[t].result.pack_name
               /\ it.pack_id = r.id
               /\ it.sticker_id = task[t].sticker_id

\* C14: save_user_pack for a (user, name) already recorded keeps the
\* existing row: once the handler has re-recorded the pack a successful
\* append went to, the row the call fetched for that pack is still in the
\* table, under its id.
C14_ExistingRecordKept ==
    \A t \in Tasks :
        (task[t].pc \in { "h_add_item", "done" }
            /\ task[t].result.outcome = "returned" /\ task[t].result.success
            /\ task[t].calls[Len(task[t].calls)].op = "add") =>
            \A r0 \in task[t].packs0 :
                (r0.user_id = task[t].user_id
                    /\ r0.pack_name = task[t].result.pack_name)
                    => \E r \in packs : r.id = r0.id /\ r.pack_name = r0.pack_name

\* C15: once a pack row has been deleted because the transport reported the
\* set gone, no association row refers to the deleted pack.
C15_PurgeTakesItems ==
    \A t \in Tasks : \A k \in 1..Len(task[t].calls) :
        (task[t].calls[k].op = "add"
            /\ task[t].calls[k].error = STICKERSET_INVALID
            /\ task[t].i > k) =>
            ~ \E it \in items : it.pack_id = task[t].existing_packs[k].id

\* C16: every sticker has at most one association row.
C16_OneAssociationPerSticker ==
    \A s \in 1..MaxStickers :
        Cardinality({ it \in items : it.sticker_id = s }) <= 1

\* the last transport call of a call that went on to create a new set
LastCall(t) == task[t].calls[Len(task[t].calls)]

\* two calls for the same user, in progress at the same time, that read the
\* same list of known packs and both reached the create-new-set step
C17_Race(t1, t2) ==
    /\ t1 # t2
    /\ task[t1].pc # "idle" /\ task[t2].pc # "idle"
    /\ task[t1].user_id = task[t2].user_id
    /\ task[t1].existing_packs = task[t2].existing_packs
    /\ Len(task[t1].calls) > 0 /\ LastCall(t1).op = "create"
    /\ Len(task[t2].calls) > 0 /\ LastCall(t2).op = "create"

\* C17: nothing serializes two add requests of one user; when they overlap,
\* read the same list of known packs and both go on to create, they do so
\* with the same ordinal, and, the display name being the same, for the same
\* set name.
C17_SameListSameOrdinal ==
    \A t1, t2 \in Tasks :
        C17_Race(t1, t2) =>
            /\ LastCall(t1).pack_number = LastCall(t2).pack_number
            /\ LastCall(t1).pack_number = Len(task[t1].existing_packs) + 1
            /\ task[t1].user_name = task[t2].user_name
                   => LastCall(t1).pack_name = LastCall(t2).pack_name

\* C17 witness: two overlapping requests of one user raced and both issued
\* create_new_sticker_set; one has recorded its pack, the other is about to
C17_Witness ==
    \E t1, t2 \in Tasks :
        /\ C17_Race(t1, t2)
        /\ LastCall(t1).sent /\ LastCall(t2).sent
        /\ task[t1].packs0 = task[t2].packs0
        /\ task[t1].pc = "done" /\ task[t1].reply = "added"
        /\ task[t2].pc = "h_result"

C18_OtherUsersUntouched ==
    \A t \in Tasks :
        task[t].pc \notin { "idle", "cb_existing", "cb_load", "gc_fetch" } =>
            \A r \in task[t].packs0 :
                r.user_id # task[t].user_id => r \in packs

\* C19: one call makes at most one append attempt per known pack, in the
\* order of the fetched list, and at most one create-set call, after the
\* last known pack; nothing is issued twice, so a call makes at most
\* (number of known packs + 1) attempts.
C19_NoRetryInsideCall ==
    \A t \in Tasks :
        LET n == Len(task[t].existing_packs)
        IN  /\ Len(task[t].calls) <= n + 1
            /\ \A k \in 1..Len(task[t].calls) :
                   LET c == task[t].calls[k]
                   IN  /\ c.op = "add" =>
                              /\ k <= n
                              /\ c.pack_name = task[t].existing_packs[k].pack_name
                              /\ \A j \in 1..(k - 1) :
                                     task[t].calls[j].pack_name # c.pack_name
                       /\ c.op = "create" => k = n + 1 /\ k = Len(task[t].calls)

\* C19 witness: a call whose append failed on a network error and whose
\* create-set call failed too has returned, neither having been re-issued
C19_Witness ==
    \E t \in Tasks :
        /\ Done(t)
        /\ Len(task[t].calls) = 2
        /\ OtherAddError(task[t].calls[1])
        /\ task[t].calls[2].op = "create"
        /\ ~ task[t].calls[2].success

\* C20: bytes that cannot be decoded as an image are never what an append
\* or a create call carries to the transport.
C20_NoUndecodableBytesSent ==
    \A t \in Tasks : \A k \in 1..Len(task[t].calls) :
        task[t].calls[k].sent => task[t].calls[k].sticker_file # "garbage"

\* C21..C30

\* C26: the name generated for a new set is the name of none of the packs
\* still registered for the user when the create-set call is made.
C26_NewNameNotRegistered ==
    \A t \in Tasks :
        (task[t].pc = "h_result" /\ Len(task[t].calls) > 0
            /\ LastCall(t).op = "create") =>
            \A r \in UserPacks(task[t].user_id) :
                r.pack_name # LastCall(t).pack_name

\* C27: once the transport has accepted an append or a create for the
\* sticker, that call was the last one get_or_create_user_pack issued.
C27_AtMostOneSet ==
    \A t \in Tasks : \A k \in 1..Len(task[t].calls) :
        task[t].calls[k].accepted => k = Len(task[t].calls)

\* C28: when the transport accepted create_new_sticker_set, the completed
\* flow has reported success and the user has a pack row of that name.
C28_CreatedSetRecorded ==
    \A t \in Tasks :
        (Done(t) /\ Len(task[t].calls) > 0 /\ LastCall(t).op = "create"
            /\ LastCall(t).accepted) =>
            /\ task[t].reply = "added"
            /\ \E r \in UserPacks(task[t].user_id) :
                   r.pack_name = LastCall(t).pack_name

\* C29: a pack keeps its associations when it is recorded again: after a
\* sticker has been appended to a known pack and recorded, get_user_packs
\* counts one sticker more for that pack than the call had fetched.
C29_CountGrowsByOne ==
    \A t \in Tasks :
        (Done(t) /\ task[t].reply = "added" /\ LastCall(t).op = "add") =>
            LET k == Len(task[t].calls)
                e == task[t].existing_packs[k]
            IN  \A list \in get_user_packs(packs, items, task[t].user_id) :
                    \E j \in 1..Len(list) :
                        /\ list[j].pack_name = e.pack_name
                        /\ list[j].stickers_count = e.stickers_count + 1


\* an add-to-pack operation of task t is under way
AddRunning(t) ==
    task[t].pc \in { "cb_existing", "cb_load", "gc_fetch", "gc_loop",
                     "gc_purge", "h_result", "h_add_item" }

\* C23: no two add-to-pack operations for one sticker id are under way at
\* the same time, and the sticker of a running cb_add_to_sticker_pack is
\* in processing_stickers until that handler is done.
C23_OneAddPerSticker ==
    /\ \A t1, t2 \in Tasks :
           (t1 # t2 /\ AddRunning(t1) /\ AddRunning(t2)) =>
               task[t1].sticker_id # task[t2].sticker_id
    /\ \A t \in Tasks :
           (AddRunning(t) /\ task[t].handler = "cb_add_to_sticker_pack") =>
               task[t].sticker_id \in processing_stickers


\* the names of the fetched packs whose check the transport answered with
\* STICKERSET_INVALID
C24_Invalid(t) ==
    { task[t].existing_packs[k].pack_name :
        k \in { j \in 1..Len(task[t].checks) :
                  /\ task[t].checks[j].kind = "raise"
                  /\ Contains(task[t].checks[j].msg, STICKERSET_INVALID) } }

\* C24: when /clean_packs is done, every pack of the user was checked, the
\* Registry is the one found at the start less the user's packs answered
\* STICKERSET_INVALID, and the count returned is the number of rows gone.
C24_CleanupExact ==
    \A t \in Tasks :
        (Done(t) /\ task[t].handler = "cmd_clean_packs") =>
            /\ Len(task[t].checks) = Len(task[t].existing_packs)
            /\ { task[t].existing_packs[k].pack_name :
                    k \in 1..Len(task[t].existing_packs) }
                 = { r.pack_name :
                       r \in { x \in task[t].packs0 : x.user_id = task[t].user_id } }
            /\ packs = { r \in task[t].packs0 :
                           ~ (r.user_id = task[t].user_id
                              /\ r.pack_name \in C24_Invalid(t)) }
            /\ task[t].removed_count = Cardinality(task[t].packs0 \ packs)
            /\ (task[t].reply = "cleaned") = (task[t].removed_count > 0)

\* a cleanup that deleted one pack of the user, kept one whose check
\* failed otherwise, while another user has a pack
C24_Witness ==
    \E t \in Tasks :
        /\ Done(t) /\ task[t].handler = "cmd_clean_packs"
        /\ task[t].removed_count = 1
        /\ \E k \in 1..Len(task[t].checks) :
               task[t].checks[k] = OtherError(MsgNetwork)
        /\ \E r \in packs : r.user_id # task[t].user_id


\* C22: every sticker row and every pack row belongs to a user that has a
\* users row.
C22_RecordsReferToUsers ==
    /\ \A st \in stickers : st.user_id \in users
    /\ \A r \in packs : r.user_id \in users

\* C30: for every user with a user_stats row, total_stickers is the number
\* of sticker rows saved for that user.
C30_TotalIsRowCount ==
    \A u \in DOMAIN user_stats :
        user_stats[u] = Cardinality({ st \in stickers : st.user_id = u })


\* C25: a text message that arrives in the waiting_for_text state goes to
\* process_sticker_text, and for a new sticker the session then holds the
\* text, stripped and cut to MAX_TEXT_LEN characters.
C25_TextGoesToProcessStickerText ==
    (handled.kind = "text" /\ handled.state = "waiting_for_text") =>
        /\ handled.handler = "process_sticker_text"
        /\ fsm[handled.user_id].state = "waiting_for_text" =>
               fsm[handled.user_id].sticker_text
                   = prefix(strip(handled.text), MAX_TEXT_LEN)


\* C21: for an input that decodes, what prepare_sticker_file returns is
\* 512x512, has an alpha channel and is no longer than
\* STICKER_FILE_SIZE_LIMIT bytes.
C21_OutputFitsSticker ==
    (prepared.called /\ prepared.input.decodable) =>
        /\ prepared.output.width = STICKER_SIDE
        /\ prepared.output.height = STICKER_SIDE
        /\ prepared.output.mode = "RGBA"
        /\ prepared.output.size <= STICKER_FILE_SIZE_LIMIT

====
